---- MODULE Spec2Model ----
(***************************************************************************)
(* A model of icecake (src/icecake.py): the ContentCache, the Page parser  *)
(* and target computation, the Site build and its queries, the Watcher's   *)
(* event Handler and Watcher.watch().                                      *)
(*                                                                         *)
(* Conventions.                                                            *)
(*  - A path is a record [abs, top, dir, stem, ext]: whether it is the     *)
(*    absolute form (joined to the site root), its first segment below the *)
(*    root, the directory segments after that, and the last segment split  *)
(*    as os.path.splitext splits it.                                       *)
(*  - A tree-relative name (a template key, a Page.filepath, an output     *)
(*    path) is a record [dir, stem, ext].                                  *)
(*  - A text is a sequence of lines; a line is a record [k, v]: k is       *)
(*    "++++" for the delimiter line, "text" for a line without ':' or '=', *)
(*    and the key for a 'key: value' line; v is the list of words.         *)
(*  - A Python dict is a function with the dict's keys as DOMAIN; an       *)
(*    optional value (None or x) is a sequence of length 0 or 1.           *)
(*  - The working directory is the site root, as the command line sets it. *)
(*  - Comparisons are Python 3's: ordering None raises TypeError.           *)
(***************************************************************************)
EXTENDS Integers, Sequences, FiniteSets, TLC

VARIABLES
    disk,      \* the source tree: root-relative path -> text
    cache,     \* the ContentCache: [files, order, templates]
    pagedata,  \* Site.pagedata
    output,    \* the tree under output/: name -> what was written
    pending,   \* file-system events delivered but not yet handled
    page,      \* the Page under study (Page specification)
    last,      \* the last operation: its arguments, result and pre-state
    env,       \* the environment: edits and calls made, paths notified
    watch      \* Watcher.watch(): where it is, the event source, interrupts

vars == <<disk, cache, pagedata, output, pending, page, last, env, watch>>

----------------------------------------------------------------------------
(* Bounds *)

MaxLen == 3        \* longest text given to Page.parse_string
MaxBuilds == 2     \* get_pages()/build() calls in one behaviour
MaxEdits == 2      \* changes the environment makes to content/
MaxPending == 2    \* events delivered and not yet handled
MaxLimit == 2      \* largest limit given to Site.pages

----------------------------------------------------------------------------
(* Optional values, dicts, sequences *)

None == <<>>
Some(x) == <<x>>

EmptyDict == [x \in {} |-> <<>>]
DictSet(d, k, v) == [x \in (DOMAIN d) \cup {k} |-> IF x = k THEN v ELSE d[x]]
DictDel(d, k) == [x \in (DOMAIN d) \ {k} |-> d[x]]
DictGet(d, k) == IF k \in DOMAIN d THEN Some(d[k]) ELSE None

Range(s) == {s[i] : i \in DOMAIN s}
SeqRemove(s, x) == SelectSeq(s, LAMBDA y : y # x)
IsPrefixSeq(s, t) == Len(s) <= Len(t) /\ SubSeq(t, 1, Len(s)) = s

----------------------------------------------------------------------------
(* Paths *)

Path(top, dir, stem, ext) ==
    [abs |-> FALSE, top |-> top, dir |-> dir, stem |-> stem, ext |-> ext]

\* join(root, p): the absolute form; an absolute p is returned as it is.
JoinRoot(p) == [p EXCEPT !.abs = TRUE]

\* relpath(p, root), with the working directory at the root.
RelRoot(p) == [p EXCEPT !.abs = FALSE]

\* str.startswith on a path's text: an absolute path starts with '/', and a
\* relative one starts with the prefix when its first segment does
\* ('content_old/x'.startswith('content')).
SegStartsWith(seg, prefix) ==
    \/ seg = prefix
    \/ <<seg, prefix>> \in {<<"content_old", "content">>, <<"fa", "f">>}

StartsWith(p, prefix) == ~p.abs /\ SegStartsWith(p.top, prefix)

\* event.src_path.startswith(join(site.root, tree)) on an absolute path.
AbsStartsWith(p, tree) == p.abs /\ SegStartsWith(p.top, tree)

\* relpath(p, tree) for a root-relative (or absolute) p: the name below the
\* tree, or '../<top>/...' when p lies in another directory.
RelTo(p, tree) ==
    [dir  |-> IF p.top = tree THEN p.dir ELSE <<"..", p.top>> \o p.dir,
     stem |-> p.stem,
     ext  |-> p.ext]

----------------------------------------------------------------------------
(* ContentCache *)

NewCache == [files |-> EmptyDict, order |-> <<>>, templates |-> EmptyDict]

Cache_peek(d, filename) == DictGet(d, RelRoot(filename))

Cache_set(c, filename, content) ==
    LET t1 == IF StartsWith(filename, "content") /\ filename.ext # ".md"
              THEN DictSet(c.templates, RelTo(filename, "content"), content)
              ELSE c.templates
        t2 == IF StartsWith(filename, "layouts")
              THEN DictSet(t1, RelTo(filename, "layouts"), content)
              ELSE t1
    IN  [files     |-> DictSet(c.files, filename, content),
         order     |-> IF filename \in DOMAIN c.files THEN c.order
                       ELSE Append(c.order, filename),
         templates |-> t2]

Cache_read(c, d, filename) ==
    LET content == Cache_peek(d, filename)
    IN  IF content # None THEN Cache_set(c, filename, content[1]) ELSE c

Cache_get(c, filename) == DictGet(c.files, filename)

\* As delete, but the file's template entry is removed with it.
Cache_delete_with_template(c, filename) ==
    [c EXCEPT !.files = DictDel(c.files, filename),
              !.order = SeqRemove(c.order, filename),
              !.templates = DictDel(c.templates, RelTo(filename, filename.top))]

\* del(self.files[filename]); the caller checks that the key is present
\* (a KeyError otherwise).
Cache_delete(c, filename) ==
    [c EXCEPT !.files = DictDel(c.files, filename),
              !.order = SeqRemove(c.order, filename)]

Cache_move(c, old, new) ==
    IF old \notin DOMAIN c.files THEN c
    ELSE Cache_delete(Cache_set(c, new, c.files[old]), old)

----------------------------------------------------------------------------
(* Page *)

Line(k, v) == [k |-> k, v |-> v]
Delim == Line("++++", <<>>)

PageLike == {".html", ".md", ".markdown"}

\* os.path.normpath on a relative path given as its segments: empty and '.'
\* segments go, and 'x/..' collapses.
RECURSIVE NormSegs(_, _)
NormSegs(done, rest) ==
    IF rest = <<>> THEN done
    ELSE LET h == Head(rest)
         IN  IF h = "" \/ h = "."
             THEN NormSegs(done, Tail(rest))
             ELSE IF h = ".." /\ done # <<>> /\ done[Len(done)] # ".."
                  THEN NormSegs(SubSeq(done, 1, Len(done) - 1), Tail(rest))
                  ELSE NormSegs(Append(done, h), Tail(rest))

\* normpath of a path that is only directories: '.' when nothing is left.
NormDir(segs) ==
    LET n == NormSegs(<<>>, segs) IN IF n = <<>> THEN <<".">> ELSE n

Page_get_folder(filepath) == filepath.dir

Page_get_default_slug(filepath) ==
    IF filepath.stem = "index" THEN "" ELSE filepath.stem

Page_get_extension(filepath) == filepath.ext

\* '/%s/' % normpath(join(folder, slug)) for a page-like extension, and
\* '/%s' % join(folder, slug + ext), not normalised, for the others.
Page_get_url(pg) ==
    IF pg.ext \in PageLike
    THEN [segs |-> NormDir(pg.folder \o <<pg.slug>>), stem |-> "", ext |-> "",
          slash |-> TRUE]
    ELSE [segs |-> pg.folder, stem |-> pg.slug, ext |-> pg.ext,
          slash |-> FALSE]

\* Page.__init__(filepath, site): filepath is made relative to content/.
Page_init(path) ==
    LET fp == RelTo(path, "content")
        p0 == [parsed |-> FALSE, filepath |-> fp,
               folder |-> Page_get_folder(fp),
               slug |-> Page_get_default_slug(fp),
               ext |-> Page_get_extension(fp),
               url |-> None,
               date |-> None, tags |-> None, template |-> None,
               title |-> None,
               body |-> None, content |-> None, rendered |-> None]
    IN  [p0 EXCEPT !.url = Some(Page_get_url(p0))]

\* get_target(): [ok, target]; ok is FALSE for the RuntimeError. The target's
\* last segment is kept split as [stem, ext].
Page_get_target(pg) ==
    IF ~pg.parsed THEN [ok |-> FALSE, target |-> None]
    ELSE IF pg.ext \in PageLike
    THEN [ok |-> TRUE,
          target |-> Some([dir |-> NormSegs(<<>>, pg.folder \o <<pg.slug>>),
                           stem |-> "index", ext |-> ".html"])]
    ELSE IF pg.slug = "" /\ pg.ext = ""
         THEN LET n == NormDir(pg.folder)
              IN  [ok |-> TRUE,
                   target |-> Some([dir |-> SubSeq(n, 1, Len(n) - 1),
                                    stem |-> n[Len(n)], ext |-> ""])]
         ELSE [ok |-> TRUE,
               target |-> Some([dir |-> NormSegs(<<>>, pg.folder),
                                stem |-> pg.slug, ext |-> pg.ext])]

\* configparser on the front matter: a line that is not 'key: value' is a
\* ParsingError, a repeated key a DuplicateOptionError.
MetaKeys(lines) == {lines[i].k : i \in DOMAIN lines}
MetaFails(lines) ==
    \/ \E i \in DOMAIN lines : lines[i].k \in {"text", "++++"}
    \/ \E i, j \in DOMAIN lines : i # j /\ lines[i].k = lines[j].k
MetaValue(lines, key) ==
    (CHOOSE l \in Range(lines) : l.k = key).v

\* value.split(" "): the words; the empty string splits to [''].
SplitWords(v) == IF v = <<>> THEN <<"">> ELSE v
\* a value read as one string (values of one word at most).
Scalar(v) == IF v = <<>> THEN "" ELSE v[1]

\* As parse_metadata, but the url computed at construction is kept.
Page_parse_metadata_stale_url(pg, lines) ==
    LET has(key) == key \in MetaKeys(lines)
        opt(key, cur) == IF has(key) THEN Some(Scalar(MetaValue(lines, key)))
                         ELSE cur
    IN  [pg EXCEPT
           !.tags = Some(IF has("tags")
                         THEN SplitWords(MetaValue(lines, "tags"))
                         ELSE <<>>),
           !.date = opt("date", pg.date),
           !.title = opt("title", pg.title),
           !.slug = IF has("slug") THEN Scalar(MetaValue(lines, "slug"))
                    ELSE pg.slug,
           !.template = opt("template", pg.template),
           !.parsed = TRUE]

\* parse_metadata(text) on a front matter that configparser accepts.
Page_parse_metadata(pg, lines) ==
    LET has(key) == key \in MetaKeys(lines)
        opt(key, cur) == IF has(key) THEN Some(Scalar(MetaValue(lines, key)))
                         ELSE cur
        p1 == [pg EXCEPT
                 !.tags = Some(IF has("tags")
                               THEN SplitWords(MetaValue(lines, "tags"))
                               ELSE <<>>),
                 !.date = opt("date", pg.date),
                 !.title = opt("title", pg.title),
                 !.slug = IF has("slug") THEN Scalar(MetaValue(lines, "slug"))
                          ELSE pg.slug,
                 !.template = opt("template", pg.template)]
    IN  [p1 EXCEPT !.url = Some(Page_get_url(p1)), !.parsed = TRUE]

\* text.split("++++", 1)
DelimAt(text) ==
    IF \E i \in DOMAIN text : text[i] = Delim
    THEN CHOOSE i \in DOMAIN text :
             text[i] = Delim /\ \A j \in 1..(i - 1) : text[j] # Delim
    ELSE 0
FrontMatter(text) == SubSeq(text, 1, DelimAt(text) - 1)
AfterDelim(text) == SubSeq(text, DelimAt(text) + 1, Len(text))

\* As parse_string, but a text without the delimiter leaves parsed false.
Page_parse_string_unflagged(path, text) ==
    LET pg == Page_init(path)
    IN  IF DelimAt(text) # 0
        THEN IF MetaFails(FrontMatter(text))
             THEN [ok |-> FALSE, page |-> None]
             ELSE [ok |-> TRUE,
                   page |-> Some([Page_parse_metadata(pg, FrontMatter(text))
                                    EXCEPT !.body = Some(AfterDelim(text))])]
        ELSE [ok |-> TRUE, page |-> Some([pg EXCEPT !.body = Some(text)])]

\* parse_string(filepath, site, text): [ok, page]; ok is FALSE when
\* configparser raises.
Page_parse_string(path, text) ==
    LET pg == Page_init(path)
    IN  IF DelimAt(text) # 0
        THEN IF MetaFails(FrontMatter(text))
             THEN [ok |-> FALSE, page |-> None]
             ELSE [ok |-> TRUE,
                   page |-> Some([Page_parse_metadata(pg, FrontMatter(text))
                                    EXCEPT !.body = Some(AfterDelim(text))])]
        ELSE [ok |-> TRUE,
              page |-> Some([pg EXCEPT !.body = Some(text), !.parsed = TRUE])]

----------------------------------------------------------------------------
(* Rendering.  The Markdown renderer and the template engine are external: *)
(* what is written is recorded as the template's text, the Page attributes *)
(* given as context, and what site.pages() and site.tags() return when the *)
(* template calls them.                                                    *)

CallsPages == Line("text", <<"{{site.pages()}}">>)
CallsTags == Line("text", <<"{{site.tags()}}">>)

\* The name of a template as jinja2's DictLoader looks it up.
NameKey(name) ==
    CASE name = "markdown.html" -> [dir |-> <<>>, stem |-> "markdown", ext |-> ".html"]
      [] name = "post.html" -> [dir |-> <<>>, stem |-> "post", ext |-> ".html"]
      [] OTHER -> [dir |-> <<>>, stem |-> name, ext |-> ""]

\* Python's order on the tag strings of the model.
TagOrder == <<"", "t1", "t2">>

Site_tags(pd) ==
    LET tagnames == UNION {Range(pd[i].tags[1]) :
                             i \in {j \in DOMAIN pd : pd[j].tags # None}}
    IN  SelectSeq(TagOrder, LAMBDA t : t \in tagnames)

\* template.render(self.__dict__, site=self.site)
Expand(tpl, pg, pd) ==
    [template |-> tpl,
     ctx      |-> Some([filepath |-> pg.filepath, slug |-> pg.slug,
                        url |-> pg.url, title |-> pg.title,
                        tags |-> pg.tags, body |-> pg.body,
                        content |-> pg.content]),
     pages    |-> IF CallsPages \in Range(tpl)
                  THEN [i \in DOMAIN pd |-> pd[i].filepath] ELSE <<>>,
     tags     |-> IF CallsTags \in Range(tpl) THEN Site_tags(pd) ELSE <<>>]

\* render(): [ok, page, out]; ok is FALSE when the template is not found.
Page_render(pg, c, pd) ==
    LET md  == pg.ext \in {".md", ".markdown"}
        p1  == IF md THEN [pg EXCEPT !.content = Some([markdown |-> pg.body])]
               ELSE pg
        key == IF md
               THEN IF pg.template # None THEN NameKey(pg.template[1])
                    ELSE NameKey("markdown.html")
               ELSE pg.filepath
    IN  IF key \notin DOMAIN c.templates
        THEN [ok |-> FALSE, page |-> p1, out |-> None]
        ELSE LET r == Expand(c.templates[key], p1, pd)
             IN  [ok |-> TRUE, page |-> [p1 EXCEPT !.rendered = Some(r)],
                  out |-> Some(r)]

----------------------------------------------------------------------------
(* Site *)

\* Python's order on the relative names of the model ('.' sorts before '/').
SortOrder ==
    << [dir |-> <<>>, stem |-> "a", ext |-> ".html"],
       [dir |-> <<>>, stem |-> "a", ext |-> ".markdown"],
       [dir |-> <<>>, stem |-> "a", ext |-> ".md"],
       [dir |-> <<"f">>, stem |-> "b", ext |-> ".markdown"],
       [dir |-> <<"f">>, stem |-> "index", ext |-> ".html"],
       [dir |-> <<"f">>, stem |-> "style", ext |-> ".css"],
       [dir |-> <<>>, stem |-> "fa", ext |-> ".md"],
       [dir |-> <<>>, stem |-> "index", ext |-> ".html"],
       [dir |-> <<>>, stem |-> "index", ext |-> ".md"],
       [dir |-> <<>>, stem |-> "markdown", ext |-> ".html"],
       [dir |-> <<>>, stem |-> "style", ext |-> ".css"] >>

\* ls_relative(join(root, tree)): the files below the tree, sorted.
ls_relative(d, tree) ==
    SelectSeq(SortOrder,
              LAMBDA n : Path(tree, n.dir, n.stem, n.ext) \in DOMAIN d)

RECURSIVE ReadAll(_, _, _, _)
ReadAll(c, d, tree, names) ==
    IF names = <<>> THEN c
    ELSE LET n == Head(names)
         IN  ReadAll(Cache_read(c, d, Path(tree, n.dir, n.stem, n.ext)),
                     d, tree, Tail(names))

Cache_warm(c, d) ==
    LET c1 == ReadAll(c, d, "content", ls_relative(d, "content"))
    IN  ReadAll(c1, d, "layouts", ls_relative(d, "layouts"))

\* get_pages(): [ok, pagedata]. Pages are appended to pd as they are parsed;
\* ok is FALSE when parse_file or render raised (pd keeps what was appended).
RECURSIVE GetPagesLoop(_, _, _, _)
GetPagesLoop(order, c, d, pd) ==
    IF order = <<>> THEN [ok |-> TRUE, pagedata |-> pd]
    ELSE LET file == Head(order)
         IN  IF ~StartsWith(file, "content") \/ RelRoot(file) \notin DOMAIN d
             THEN GetPagesLoop(Tail(order), c, d, pd)
             ELSE LET r == Page_parse_string(JoinRoot(file), d[RelRoot(file)])
                  IN  IF ~r.ok THEN [ok |-> FALSE, pagedata |-> pd]
                      ELSE LET rr == Page_render(r.page[1], c, pd)
                           IN  IF ~rr.ok THEN [ok |-> FALSE, pagedata |-> pd]
                               ELSE GetPagesLoop(Tail(order), c, d,
                                                 Append(pd, rr.page))

Site_get_pages(c, d, pd) == GetPagesLoop(c.order, c, d, pd)

\* copy_static(): every file under static/ is copied below output/.
Site_copy_static(d, out) ==
    LET names == ls_relative(d, "static")
        copy(n) == [template |-> d[Path("static", n.dir, n.stem, n.ext)],
                    ctx |-> None, pages |-> <<>>, tags |-> <<>>]
    IN  [k \in (DOMAIN out) \cup Range(names) |->
           IF k \in Range(names) THEN copy(k) ELSE out[k]]

EmptyFile == [template |-> <<>>, ctx |-> None, pages |-> <<>>, tags |-> <<>>]

\* The loop of build() over pagedata: [ok, pagedata, output].
RECURSIVE BuildLoop(_, _, _, _)
BuildLoop(i, c, pd, out) ==
    IF i > Len(pd) THEN [ok |-> TRUE, pagedata |-> pd, output |-> out]
    ELSE LET t == Page_get_target(pd[i])
             r == Page_render(pd[i], c, pd)
             pd1 == [pd EXCEPT ![i] = r.page]
         IN  IF ~t.ok THEN [ok |-> FALSE, pagedata |-> pd, output |-> out]
             ELSE IF ~r.ok
                  \* open(output_filename, "w") has run when render() raises
                  THEN [ok |-> FALSE, pagedata |-> pd1,
                        output |-> DictSet(out, t.target[1], EmptyFile)]
                  ELSE BuildLoop(i + 1, c, pd1,
                                 DictSet(out, t.target[1], r.out[1]))

\* build(): [ok, pagedata, output].
Site_build(c, d, pd, out) ==
    LET g == Site_get_pages(c, d, pd)
    IN  IF ~g.ok THEN [ok |-> FALSE, pagedata |-> g.pagedata, output |-> out]
        ELSE LET b == BuildLoop(1, c, g.pagedata, out)
             IN  IF ~b.ok THEN b
                 ELSE [b EXCEPT !.output = Site_copy_static(d, b.output)]

\* Python's order on the strings that pages() sorts by in the model.
StrOrder == <<"", "T", "a", "b", "d1", "d2", "fa", "s1">>
StrRank(x) == CHOOSE i \in DOMAIN StrOrder : StrOrder[i] = x

\* getattr(page, name) for the attributes the model sorts by.
Attr(pg, name) ==
    CASE name = "slug" -> Some(pg.slug)
      [] name = "date" -> pg.date
      [] name = "title" -> pg.title

\* page.filepath.startswith(path) for a prefix without '/' or '.': it is a
\* prefix of the filepath's first segment.
FilepathStartsWith(fp, prefix) ==
    SegStartsWith(IF fp.dir # <<>> THEN fp.dir[1] ELSE fp.stem, prefix)

\* list.sort(key=..., reverse=rev) on keys that can all be compared: stable,
\* and with reverse the equal keys keep their order too.
SortedBy(items, name, rev) ==
    LET n == Len(items)
        rk(i) == StrRank(Attr(items[i], name)[1])
        before(i, j) ==
            \/ IF rev THEN rk(j) < rk(i) ELSE rk(i) < rk(j)
            \/ rk(i) = rk(j) /\ i < j
        pos(i) == 1 + Cardinality({j \in 1..n : before(j, i)})
    IN  [p \in 1..n |-> items[CHOOSE i \in 1..n : pos(i) = p]]

\* As pages(), but the limit is applied before the sort.
Site_pages_limit_first(pd, path, tag, limit, order) ==
    LET i1 == IF path # None
              THEN SelectSeq(pd, LAMBDA p : FilepathStartsWith(p.filepath, path[1]))
              ELSE pd
        tagFails == tag # None /\ \E i \in DOMAIN i1 : i1[i].tags = None
        i2 == IF tag # None
              THEN SelectSeq(i1, LAMBDA p : tag[1] \in Range(p.tags[1]))
              ELSE i1
        i3 == IF limit # None /\ limit[1] > 0 /\ limit[1] < Len(i2)
              THEN SubSeq(i2, 1, limit[1]) ELSE i2
        rev == order # None /\ order[1].rev
        sortFails == /\ order # None
                     /\ Len(i3) >= 2
                     /\ \E i \in DOMAIN i3 : Attr(i3[i], order[1].attr) = None
        i4 == IF order # None /\ Len(i3) >= 2
              THEN SortedBy(i3, order[1].attr, rev) ELSE i3
    IN  IF tagFails \/ sortFails
        THEN [ok |-> FALSE, items |-> None, pagedata |-> pd, scrambled |-> FALSE]
        ELSE [ok |-> TRUE, items |-> Some(i4), pagedata |-> pd,
              scrambled |-> FALSE]

\* pages(path, tag, limit, order): [ok, items, pagedata, scrambled].  An
\* order is [attr, rev], rev for a leading '-'.  ok is FALSE for the
\* TypeError of 'tag in None' or of comparing None (Python 3).  With neither
\* path nor tag given, items is self.pagedata itself and items.sort() sorts
\* that list; scrambled says that the sort raised on it part-way, which
\* leaves the list in an order the language does not define.
Site_pages(pd, path, tag, limit, order) ==
    LET i1 == IF path # None
              THEN SelectSeq(pd, LAMBDA p : FilepathStartsWith(p.filepath, path[1]))
              ELSE pd
        tagFails == tag # None /\ \E i \in DOMAIN i1 : i1[i].tags = None
        i2 == IF tag # None
              THEN SelectSeq(i1, LAMBDA p : tag[1] \in Range(p.tags[1]))
              ELSE i1
        inPlace == path = None /\ tag = None
        rev == order # None /\ order[1].rev
        sortFails == /\ order # None
                     /\ Len(i2) >= 2
                     /\ \E i \in DOMAIN i2 : Attr(i2[i], order[1].attr) = None
        i3 == IF order # None /\ Len(i2) >= 2
              THEN SortedBy(i2, order[1].attr, rev) ELSE i2
        i4 == IF limit # None /\ limit[1] > 0 /\ limit[1] < Len(i3)
              THEN SubSeq(i3, 1, limit[1]) ELSE i3
    IN  IF tagFails
        THEN [ok |-> FALSE, items |-> None, pagedata |-> pd, scrambled |-> FALSE]
        ELSE IF sortFails
        THEN [ok |-> FALSE, items |-> None, pagedata |-> pd,
              scrambled |-> inPlace]
        ELSE [ok |-> TRUE, items |-> Some(i4),
              pagedata |-> IF inPlace THEN i3 ELSE pd, scrambled |-> FALSE]

\* The orders a list may be left in by a sort that raised.
RECURSIVE Perms(_)
Perms(s) ==
    IF s = <<>> THEN {<<>>}
    ELSE UNION { { SubSeq(q, 1, k) \o <<Head(s)>> \o SubSeq(q, k + 1, Len(q)) :
                     k \in 0..Len(q) } : q \in Perms(Tail(s)) }

----------------------------------------------------------------------------
(* Handler *)

\* render_to_disk(): [ok, output]; the rendering goes to output/<filepath>.
Page_render_to_disk(pg, c, pd, out) ==
    LET r == Page_render(pg, c, pd)
    IN  IF r.ok THEN [ok |-> TRUE, output |-> DictSet(out, pg.filepath, r.out[1])]
        ELSE [ok |-> FALSE, output |-> out]

\* What one handler call did: [cache, disk, output, err, renders, parsed]:
\* renders counts the calls of render_to_disk, parsed is the text the Page
\* was parsed from.
Handled(c, d, out, err, renders, parsed) ==
    [cache |-> c, disk |-> d, output |-> out, err |-> err,
     renders |-> renders, parsed |-> parsed]

\* on_created(event): the cache is read under event.src_path as it is.
Handler_on_created(src_path, c, d, pd, out) ==
    LET data == Cache_peek(d, src_path)
        c1   == Cache_read(c, d, src_path)
    IN  IF data = None
        THEN Handled(c1, d, out, TRUE, 0, None)
        ELSE LET r == Page_parse_string(src_path, data[1])
             IN  IF ~r.ok THEN Handled(c1, d, out, TRUE, 0, data)
                 ELSE LET w == Page_render_to_disk(r.page[1], c1, pd, out)
                      IN  Handled(c1, d, w.output, ~w.ok, 1, data)

\* shutil.rmtree(path): a directory and all below it go; anything else is
\* an OSError.
IsDir(d, p) ==
    \E f \in DOMAIN d :
        f.top = p.top /\ p.ext = "" /\ IsPrefixSeq(p.dir \o <<p.stem>>, f.dir)
RmTree(d, p) ==
    [f \in {g \in DOMAIN d :
              ~(g.top = p.top /\ IsPrefixSeq(p.dir \o <<p.stem>>, g.dir))}
       |-> d[f]]

\* on_deleted(event)
Handler_on_deleted(src_path, c, d, pd, out) ==
    IF AbsStartsWith(src_path, "content") \/ AbsStartsWith(src_path, "layouts")
    THEN IF IsDir(d, RelRoot(src_path))
         THEN Handled(c, RmTree(d, RelRoot(src_path)), out, FALSE, 0, None)
         ELSE Handled(c, d, out, TRUE, 0, None)
    ELSE Handled(c, d, out, FALSE, 0, None)

\* As on_modified, but the Page is parsed from the value the cache held
\* before the file was read again.
Handler_on_modified_stale(src_path, c, d, pd, out) ==
    LET path == RelRoot(src_path)
        old  == Cache_get(c, path)
        new  == Cache_peek(d, path)
        c1   == Cache_read(c, d, path)
    IN  IF old # new
        THEN IF old = None THEN Handled(c1, d, out, TRUE, 0, None)
             ELSE LET r == Page_parse_string(path, old[1])
                  IN  IF ~r.ok THEN Handled(c1, d, out, TRUE, 0, old)
                      ELSE LET w == Page_render_to_disk(r.page[1], c1, pd, out)
                           IN  Handled(c1, d, w.output, ~w.ok, 1, old)
        ELSE Handled(c1, d, out, FALSE, 0, None)

\* on_modified(event)
Handler_on_modified(src_path, c, d, pd, out) ==
    LET path == RelRoot(src_path)
        old  == Cache_get(c, path)
        new  == Cache_peek(d, path)
        c1   == Cache_read(c, d, path)
    IN  IF old # new
        THEN LET data == Cache_get(c1, path)
                 r == Page_parse_string(path, data[1])
             IN  IF ~r.ok THEN Handled(c1, d, out, TRUE, 0, data)
                 ELSE LET w == Page_render_to_disk(r.page[1], c1, pd, out)
                      IN  Handled(c1, d, w.output, ~w.ok, 1, data)
        ELSE Handled(c1, d, out, FALSE, 0, None)

----------------------------------------------------------------------------
(* The ContentCache specification: set, read, delete and move, in any order, *)
(* from an empty cache.                                                      *)

TX == <<[k |-> "text", v |-> <<"x">>]>>
TY == <<[k |-> "text", v |-> <<"y">>]>>

CachePaths ==
    { Path("content", <<>>, "a", ".md"),
      Path("content", <<>>, "a", ".markdown"),
      Path("content", <<>>, "a", ".html"),
      Path("layouts", <<>>, "a", ".html") }

CacheTexts == {TX, TY}

CacheDisk ==
    [p \in { Path("content", <<>>, "a", ".md"),
             Path("content", <<>>, "a", ".html"),
             Path("layouts", <<>>, "a", ".html") }
       |-> IF p.top = "layouts" THEN TY ELSE TX]

NoLast == [op |-> "init"]
NoEnv == [edits |-> 0, builds |-> 0, notified |-> {}]

\* watch() has not been called.
NoSeen == [any |-> FALSE, loop |-> FALSE, again |-> FALSE]
NoWatch == [pc |-> "off", obs |-> "new", seen |-> NoSeen]

CacheInit ==
    /\ disk = CacheDisk
    /\ cache = NewCache
    /\ pagedata = <<>>
    /\ output = EmptyDict
    /\ pending = <<>>
    /\ page = None
    /\ last = NoLast
    /\ env = NoEnv
    /\ watch = NoWatch

CacheFrame == UNCHANGED <<disk, pagedata, output, pending, page, env, watch>>

CSet ==
    \E p \in CachePaths, t \in CacheTexts :
        /\ cache' = Cache_set(cache, p, t)
        /\ last' = [op |-> "set", path |-> p, new |-> p, arg |-> Some(t),
                    pre |-> cache, err |-> FALSE]
        /\ CacheFrame

CRead ==
    \E p \in CachePaths :
        /\ cache' = Cache_read(cache, disk, p)
        /\ last' = [op |-> "read", path |-> p, new |-> p,
                    arg |-> Cache_peek(disk, p), pre |-> cache, err |-> FALSE]
        /\ CacheFrame

CDelete ==
    \E p \in CachePaths :
        /\ cache' = IF p \in DOMAIN cache.files THEN Cache_delete(cache, p)
                    ELSE cache
        /\ last' = [op |-> "delete", path |-> p, new |-> p, arg |-> None,
                    pre |-> cache, err |-> p \notin DOMAIN cache.files]
        /\ CacheFrame

CMove ==
    \E old \in CachePaths, new \in CachePaths :
        /\ cache' = Cache_move(cache, old, new)
        /\ last' = [op |-> "move", path |-> old, new |-> new, arg |-> None,
                    pre |-> cache, err |-> FALSE]
        /\ CacheFrame

CacheNext == CSet \/ CRead \/ CDelete \/ CMove

CacheSpec == CacheInit /\ [][CacheNext]_vars

----------------------------------------------------------------------------
(* Claims about the ContentCache *)

IsMarkdownExt(e) == e \in {".md", ".markdown"}

\* p is a file that templates[k] may project: content/k with a non-Markdown
\* extension, or layouts/k.
ProjectsTo(p, k) ==
    /\ ~p.abs
    /\ \/ p.top = "content" /\ ~IsMarkdownExt(p.ext)
       \/ p.top = "layouts"
    /\ [dir |-> p.dir, stem |-> p.stem, ext |-> p.ext] = k

\* C1: after any sequence of set, read, delete and move from an empty cache,
\* every key k of templates has a path p in files (content/k with a
\* non-Markdown extension, or layouts/k) with templates[k] = files[p].
C1_TemplatesProjectFiles ==
    \A k \in DOMAIN cache.templates :
        \E p \in DOMAIN cache.files :
            ProjectsTo(p, k) /\ cache.files[p] = cache.templates[k]

\* C10: set(p, X) for p under layouts/ makes templates[p relative to
\* layouts/] = X; set(p, Y) for a Markdown content file p (.md or .markdown)
\* stores files[p] = Y and leaves templates unchanged.
C10_SetProjection ==
    last.op = "set" =>
        /\ last.path.top = "layouts" =>
               /\ RelTo(last.path, "layouts") \in DOMAIN cache.templates
               /\ cache.templates[RelTo(last.path, "layouts")] = last.arg[1]
        /\ (last.path.top = "content" /\ IsMarkdownExt(last.path.ext)) =>
               /\ cache.files[last.path] = last.arg[1]
               /\ cache.templates = last.pre.templates

\* C13: move(old, new), old and new possibly equal: with old absent from
\* files the cache is unchanged; otherwise get(new) afterwards returns the
\* content that was stored under old, old is no longer in files when
\* old # new, and every other entry of files is unchanged.
C13_Move ==
    last.op = "move" =>
        LET old == last.path
            new == last.new
        IN  IF old \notin DOMAIN last.pre.files
            THEN cache = last.pre
            ELSE /\ Cache_get(cache, new) = Some(last.pre.files[old])
                 /\ old # new => old \notin DOMAIN cache.files
                 /\ \A p \in ((DOMAIN cache.files) \cup (DOMAIN last.pre.files))
                               \ {old, new} :
                        DictGet(cache.files, p) = DictGet(last.pre.files, p)

\* As C13, for old # new only.
C13_MoveDistinct ==
    (last.op = "move" /\ last.path # last.new) => C13_Move

\* C14: delete(path) with path in files removes exactly that entry from
\* files and leaves templates and every other entry of files unchanged;
\* with path absent it fails and leaves files and templates unchanged.
C14_Delete ==
    last.op = "delete" =>
        LET p == last.path
        IN  IF p \in DOMAIN last.pre.files
            THEN /\ ~last.err
                 /\ DOMAIN cache.files = (DOMAIN last.pre.files) \ {p}
                 /\ \A q \in DOMAIN cache.files :
                        cache.files[q] = last.pre.files[q]
                 /\ cache.templates = last.pre.templates
            ELSE /\ last.err
                 /\ cache.files = last.pre.files
                 /\ cache.templates = last.pre.templates

\* A layout that is in files and in templates is deleted: it leaves files
\* and stays in templates.
C14_Witness ==
    /\ last.op = "delete" /\ ~last.err
    /\ last.path.top = "layouts"
    /\ last.path \in DOMAIN last.pre.files
    /\ last.path \notin DOMAIN cache.files
    /\ RelTo(last.path, "layouts") \in DOMAIN cache.templates

----------------------------------------------------------------------------
(* The Page specification: Pages are constructed or parsed from every text *)
(* of at most MaxLen lines, and get_target() is called on them.            *)

PagePaths ==
    { Path("content", <<>>, "a", ".md"),
      Path("content", <<>>, "index", ".md"),
      Path("content", <<"f">>, "index", ".html"),
      Path("content", <<"f">>, "index", ".md"),
      Path("content", <<"f">>, "b", ".markdown"),
      Path("content", <<"f">>, "style", ".css") }

PageLines ==
    { Delim,
      Line("slug", <<"s1">>),
      Line("slug", <<>>),
      Line("tags", <<"t1", "t2">>),
      Line("title", <<"T">>),
      Line("text", <<"b">>) }

SeqsUpTo(S, n) == UNION {[1..m -> S] : m \in 0..n}

PageTexts == SeqsUpTo(PageLines, MaxLen)
MetaTexts == SeqsUpTo(PageLines \ {Delim}, MaxLen - 1)

\* The Page under study: the object, how it was made, whether parse_metadata
\* has run on it, and the front matter it was given.
NoPage == [obj |-> None, how |-> "none", metaRan |-> FALSE, meta |-> None]

PageInit ==
    /\ disk = EmptyDict
    /\ cache = NewCache
    /\ pagedata = <<>>
    /\ output = EmptyDict
    /\ pending = <<>>
    /\ page = NoPage
    /\ last = [op |-> "init", err |-> FALSE, target |-> None, pre |-> None]
    /\ env = NoEnv
    /\ watch = NoWatch

PageFrame == UNCHANGED <<disk, cache, pagedata, output, pending, env, watch>>

PNew ==
    /\ page.obj = None
    /\ \E p \in PagePaths :
        /\ page' = [obj |-> Some(Page_init(JoinRoot(p))), how |-> "new",
                    metaRan |-> FALSE, meta |-> None]
        /\ last' = [op |-> "new", err |-> FALSE, target |-> None,
                    pre |-> None]
        /\ PageFrame

PParseString ==
    /\ page.obj = None
    /\ \E p \in PagePaths, text \in PageTexts :
        LET r == Page_parse_string(JoinRoot(p), text)
        IN  /\ page' = IF r.ok
                       THEN [obj |-> r.page, how |-> "parse_string",
                             metaRan |-> DelimAt(text) # 0,
                             meta |-> IF DelimAt(text) # 0
                                      THEN Some(FrontMatter(text)) ELSE None]
                       ELSE page
            /\ last' = [op |-> "parse_string", err |-> ~r.ok,
                        target |-> None, pre |-> None]
            /\ PageFrame

\* parse_metadata called on a freshly constructed Page.
PParseMetadata ==
    /\ page.how = "new"
    /\ ~page.metaRan
    /\ \E lines \in MetaTexts :
        /\ page' = IF MetaFails(lines) THEN page
                   ELSE [page EXCEPT
                           !.obj = Some(Page_parse_metadata(page.obj[1], lines)),
                           !.metaRan = TRUE,
                           !.meta = Some(lines)]
        /\ last' = [op |-> "parse_metadata", err |-> MetaFails(lines),
                    target |-> None, pre |-> None]
        /\ PageFrame

PGetTarget ==
    /\ page.obj # None
    /\ LET r == Page_get_target(page.obj[1])
       IN  /\ last' = [op |-> "get_target", err |-> ~r.ok,
                       target |-> r.target, pre |-> page.obj]
           /\ page' = page
           /\ PageFrame

\* The owner lets the Page go; the next one is studied.
PDiscard ==
    /\ page.obj # None
    /\ page' = NoPage
    /\ last' = [op |-> "discard", err |-> FALSE, target |-> None,
                pre |-> None]
    /\ PageFrame

PageNext == PNew \/ PParseString \/ PParseMetadata \/ PGetTarget \/ PDiscard

PageSpec == PageInit /\ [][PageNext]_vars

----------------------------------------------------------------------------
(* Claims about Page *)

\* C8 (as stated): get_target() fails whenever parse_metadata has not run on
\* the Page, and the failed call leaves the Page unchanged; this covers a
\* freshly constructed Page and a Page returned by parse_string for text
\* without the delimiter.
C8_FailsUnlessMetadataRan ==
    (last.op = "get_target" /\ ~page.metaRan) =>
        (last.err /\ page.obj = last.pre)

\* C8 (amended): get_target() fails exactly when the Page's parsed flag is
\* false, which is the case for a freshly constructed Page, and the failed
\* call leaves the Page unchanged; a Page returned by parse_string has the
\* flag set, with or without the delimiter, and get_target() succeeds on it.
C8_FailsUnlessParsed ==
    last.op = "get_target" =>
        /\ last.err <=> ~last.pre[1].parsed
        /\ page.how = "new" /\ ~page.metaRan => last.err
        /\ page.how = "parse_string" => ~last.err
        /\ last.err => page.obj = last.pre /\ last.target = None

C8_Witness ==
    /\ last.op = "get_target"
    /\ page.how = "parse_string"
    /\ ~page.metaRan
    /\ ~last.err

C8_WitnessFresh ==
    last.op = "get_target" /\ page.how = "new" /\ ~page.metaRan /\ last.err

\* The slug the claim names: the front matter's when it gives one, and the
\* filename's (empty for an index file) when it does not.
C9_Slug ==
    IF page.meta # None /\ "slug" \in MetaKeys(page.meta[1])
    THEN Scalar(MetaValue(page.meta[1], "slug"))
    ELSE IF page.obj[1].filepath.stem = "index" THEN ""
         ELSE page.obj[1].filepath.stem

C9_SlugSegs == IF C9_Slug = "" THEN <<>> ELSE <<C9_Slug>>

\* C9: for a parsed Page, get_target() is folder/slug/index.html for the
\* extensions .html, .md and .markdown and folder/(slug+ext) for the others,
\* slug being the front matter's slug when it gives one and the filename's
\* default (empty for index files) when not; url is that of the same slug.
C9_TargetFromSlug ==
    (last.op = "get_target" /\ ~last.err) =>
        LET pg == page.obj[1]
            fp == pg.filepath
        IN  /\ pg.slug = C9_Slug
            /\ last.target =
                 Some(IF fp.ext \in {".html", ".md", ".markdown"}
                      THEN [dir |-> fp.dir \o C9_SlugSegs,
                            stem |-> "index", ext |-> ".html"]
                      ELSE [dir |-> fp.dir, stem |-> C9_Slug,
                            ext |-> fp.ext])
            /\ pg.url = Some(Page_get_url([pg EXCEPT !.slug = C9_Slug]))

C9_Witness ==
    /\ last.op = "get_target"
    /\ ~last.err
    /\ page.meta # None
    /\ "slug" \in MetaKeys(page.meta[1])
    /\ page.obj[1].filepath.stem = "index"
    /\ last.target = Some([dir |-> <<"f", "s1">>, stem |-> "index",
                           ext |-> ".html"])

\* The text of a page-like url, '/%s/' around the segments joined by '/',
\* as the list of its segments and slashes.
RECURSIVE JoinSegs(_)
JoinSegs(segs) ==
    IF Len(segs) <= 1 THEN segs
    ELSE <<Head(segs), "/">> \o JoinSegs(Tail(segs))
UrlText(u) == <<"/">> \o JoinSegs(u.segs) \o <<"/">>

\* C12: the Page for f/index.md, its slug not overridden by front matter,
\* has the empty slug and the url '/f/', which is '/' for the content root.
C12_IndexUrl ==
    (/\ page.obj # None
     /\ page.obj[1].filepath.stem = "index"
     /\ page.obj[1].filepath.ext = ".md"
     /\ (page.meta = None \/ "slug" \notin MetaKeys(page.meta[1]))) =>
        LET pg == page.obj[1]
            f  == pg.filepath.dir
        IN  /\ pg.slug = ""
            /\ UrlText(pg.url[1]) =
                 IF f = <<>> THEN <<"/">> ELSE <<"/">> \o JoinSegs(f) \o <<"/">>

\* As C12, for the folders below the content root only.
C12_IndexUrlBelowRoot ==
    (/\ page.obj # None
     /\ page.obj[1].filepath.stem = "index"
     /\ page.obj[1].filepath.ext = ".md"
     /\ page.obj[1].filepath.dir # <<>>
     /\ (page.meta = None \/ "slug" \notin MetaKeys(page.meta[1]))) =>
        LET pg == page.obj[1]
        IN  /\ pg.slug = ""
            /\ UrlText(pg.url[1]) = <<"/">> \o JoinSegs(pg.filepath.dir) \o <<"/">>

----------------------------------------------------------------------------
(* The Site specification: a Site is constructed over a source tree (its   *)
(* cache warmed), get_pages() and build() are called, and the environment  *)
(* creates, modifies and deletes files under content/, each change         *)
(* delivering an event that the Handler handles later, in order.           *)

TA == <<Line("text", <<"x">>)>>
TB == <<Line("slug", <<"s1">>), Line("tags", <<"t1">>), Delim,
        Line("text", <<"y">>)>>
TP == <<Delim, CallsPages>>
TBad == <<Line("text", <<"x">>), Delim>>
TM == <<Line("text", <<"{{content}}">>)>>

SiteTexts == {TA, TB, TP, TBad}

A_md == Path("content", <<>>, "a", ".md")
Index_html == Path("content", <<>>, "index", ".html")
Layout_markdown == Path("layouts", <<>>, "markdown", ".html")
Layout_index == Path("layouts", <<>>, "index", ".html")
Static_css == Path("static", <<>>, "style", ".css")

ContentPaths == {A_md, Index_html}

\* The trees a Site may be constructed over.
SiteDisks ==
    { [p \in dom |-> IF p \in ContentPaths THEN TA
                     ELSE IF p = Layout_index THEN TP ELSE TM] :
        dom \in { D \cup S : D \in SUBSET ContentPaths,
                             S \in { {Layout_markdown, Static_css},
                                     {Layout_markdown, Layout_index,
                                      Static_css} } } }

Snapshot == [cache |-> cache, disk |-> disk, output |-> output,
             pagedata |-> pagedata]

SiteLast(op, path, h, old, new) ==
    [op |-> op, path |-> path, err |-> h.err, renders |-> h.renders,
     parsed |-> h.parsed, old |-> old, new |-> new, pre |-> Snapshot,
     prev |-> [op |-> last.op, err |-> last.err]]

SiteInit ==
    /\ disk \in SiteDisks
    /\ cache = Cache_warm(NewCache, disk)
    /\ pagedata = <<>>
    /\ output = EmptyDict
    /\ pending = <<>>
    /\ page = None
    /\ last = [op |-> "init", path |-> None, err |-> FALSE, renders |-> 0,
               parsed |-> None, old |-> None, new |-> None,
               pre |-> [cache |-> NewCache, disk |-> EmptyDict,
                        output |-> EmptyDict, pagedata |-> <<>>],
               prev |-> [op |-> "init", err |-> FALSE]]
    /\ env = NoEnv
    /\ watch = NoWatch

NoHandled == [err |-> FALSE, renders |-> 0, parsed |-> None]

SGetPages ==
    /\ env.builds < MaxBuilds
    /\ LET g == Site_get_pages(cache, disk, pagedata)
       IN  /\ pagedata' = g.pagedata
           /\ last' = SiteLast("get_pages", None,
                               [NoHandled EXCEPT !.err = ~g.ok], None, None)
    /\ env' = [env EXCEPT !.builds = @ + 1]
    /\ UNCHANGED <<disk, cache, output, pending, page, watch>>

SBuild ==
    /\ env.builds < MaxBuilds
    /\ LET b == Site_build(cache, disk, pagedata, output)
       IN  /\ pagedata' = b.pagedata
           /\ output' = b.output
           /\ last' = SiteLast("build", None,
                               [NoHandled EXCEPT !.err = ~b.ok], None, None)
    /\ env' = [env EXCEPT !.builds = @ + 1]
    /\ UNCHANGED <<disk, cache, pending, page, watch>>

\* The environment changes a file; the event source delivers the event.
Deliver(kind, p) ==
    /\ env.edits < MaxEdits
    /\ Len(pending) < MaxPending
    /\ pending' = Append(pending, [kind |-> kind, src_path |-> JoinRoot(p)])
    /\ env' = [env EXCEPT !.edits = @ + 1, !.notified = @ \cup {p}]
    /\ last' = SiteLast(kind, Some(p), NoHandled, None, None)
    /\ UNCHANGED <<cache, pagedata, output, page, watch>>

EnvCreate ==
    \E p \in ContentPaths \ DOMAIN disk, t \in SiteTexts :
        /\ disk' = DictSet(disk, p, t)
        /\ Deliver("created", p)

EnvModify ==
    \E p \in ContentPaths \cap DOMAIN disk, t \in SiteTexts :
        /\ disk' = DictSet(disk, p, t)
        /\ Deliver("modified", p)

EnvDelete ==
    \E p \in ContentPaths \cap DOMAIN disk :
        /\ disk' = DictDel(disk, p)
        /\ Deliver("deleted", p)

Handle(kind, h, old, new) ==
    /\ cache' = h.cache
    /\ disk' = h.disk
    /\ output' = h.output
    /\ pending' = Tail(pending)
    /\ last' = SiteLast(kind, Some(RelRoot(Head(pending).src_path)), h,
                        old, new)
    /\ UNCHANGED <<pagedata, page, env, watch>>

HOnCreated ==
    /\ pending # <<>>
    /\ Head(pending).kind = "created"
    /\ LET src == Head(pending).src_path
       IN  Handle("on_created",
                  Handler_on_created(src, cache, disk, pagedata, output),
                  Cache_get(cache, src), Cache_peek(disk, src))

HOnModified ==
    /\ pending # <<>>
    /\ Head(pending).kind = "modified"
    /\ LET src == Head(pending).src_path
       IN  Handle("on_modified",
                  Handler_on_modified(src, cache, disk, pagedata, output),
                  Cache_get(cache, RelRoot(src)), Cache_peek(disk, src))

HOnDeleted ==
    /\ pending # <<>>
    /\ Head(pending).kind = "deleted"
    /\ LET src == Head(pending).src_path
       IN  Handle("on_deleted",
                  Handler_on_deleted(src, cache, disk, pagedata, output),
                  Cache_get(cache, RelRoot(src)), Cache_peek(disk, src))

SiteNext ==
    \/ SGetPages \/ SBuild
    \/ EnvCreate \/ EnvModify \/ EnvDelete
    \/ HOnCreated \/ HOnModified \/ HOnDeleted

SiteSpec == SiteInit /\ [][SiteNext]_vars

\* The watch command: Watcher constructs the Site and only handles events;
\* nothing is built.
WatchNext ==
    \/ EnvCreate \/ EnvModify \/ EnvDelete
    \/ HOnCreated \/ HOnModified \/ HOnDeleted

WatchSpec == SiteInit /\ [][WatchNext]_vars

----------------------------------------------------------------------------
(* Claims about targets and the template mapping *)

\* C19: after a build, the Pages of two distinct content files have
\* different targets, so no output file is written by two pages.
C19_TargetsDistinct ==
    (last.op = "build" /\ ~last.err) =>
        \A i, j \in DOMAIN pagedata :
            pagedata[i].filepath # pagedata[j].filepath =>
                Page_get_target(pagedata[i]).target
                    # Page_get_target(pagedata[j]).target

\* templates holds, under p's content-relative name, p's text on disk.
OwnTemplateCurrent(p) ==
    LET k == RelTo(p, "content")
    IN  /\ k \in DOMAIN cache.templates
        /\ DictGet(disk, p) = Some(cache.templates[k])

\* C20: whenever render() is invoked on a non-Markdown Page, by the create
\* and modify handlers or by get_pages()/build(), templates holds an entry
\* under the Page's content-relative filepath whose value is the file's
\* current content, and the lookup of the page's own template succeeds.
C20_OwnTemplatePresent ==
    /\ (/\ last.op \in {"on_created", "on_modified"}
        /\ last.renders = 1
        /\ ~IsMarkdownExt(last.path[1].ext)) =>
           (OwnTemplateCurrent(last.path[1]) /\ ~last.err)
    /\ (last.op \in {"get_pages", "build"} /\ ~last.err) =>
           \A p \in DOMAIN cache.files :
               (/\ StartsWith(p, "content")
                /\ p \in DOMAIN disk
                /\ ~IsMarkdownExt(p.ext)) => OwnTemplateCurrent(p)

----------------------------------------------------------------------------
(* The Watcher specification: Watcher(root).watch() runs on the main       *)
(* thread: it schedules the Handler, starts the event source (a thread of  *)
(* its own), sleeps in a loop, and on KeyboardInterrupt stops the source   *)
(* and joins it.  An interrupt may arrive at any point of watch(), and     *)
(* more than once; outside the try block it is not caught.  While the      *)
(* event source runs, changes under content/ are delivered and handled.    *)

WatcherInit ==
    /\ disk \in SiteDisks
    /\ cache = Cache_warm(NewCache, disk)
    /\ pagedata = <<>>
    /\ output = EmptyDict
    /\ pending = <<>>
    /\ page = None
    /\ last = [op |-> "init", path |-> None, err |-> FALSE, renders |-> 0,
               parsed |-> None, old |-> None, new |-> None,
               pre |-> [cache |-> NewCache, disk |-> EmptyDict,
                        output |-> EmptyDict, pagedata |-> <<>>],
               prev |-> [op |-> "init", err |-> FALSE]]
    /\ env = NoEnv
    /\ watch = [pc |-> "schedule", obs |-> "new", seen |-> NoSeen]

WatcherFrame ==
    UNCHANGED <<disk, cache, pagedata, output, pending, page, last, env>>

\* watch() has ended: it returned, or a KeyboardInterrupt left it.
WEnded == watch.pc \in {"returned", "raised"}

\* obs.schedule(Handler(), join(root, 'content'), recursive=True)
WSchedule ==
    /\ watch.pc = "schedule"
    /\ watch' = [watch EXCEPT !.pc = "start"]
    /\ WatcherFrame

\* obs.start(); the try block is entered.
WStart ==
    /\ watch.pc = "start"
    /\ watch' = [watch EXCEPT !.pc = "loop", !.obs = "running"]
    /\ WatcherFrame

\* while True: time.sleep(1)
WSleep ==
    /\ watch.pc = "loop"
    /\ watch' = watch
    /\ WatcherFrame

\* A KeyboardInterrupt is raised in the main thread: inside the try block
\* the except clause takes it, anywhere else it leaves watch().
WInterrupt ==
    /\ ~WEnded
    /\ watch' = [watch EXCEPT
                   !.pc = IF watch.pc = "loop" THEN "stop" ELSE "raised",
                   !.seen = [any   |-> TRUE,
                             loop  |-> @.loop \/ watch.pc = "loop",
                             again |-> @.loop]]
    /\ WatcherFrame

\* As obs.stop(), but the event source is left running.
WStop_skipped ==
    /\ watch.pc = "stop"
    /\ watch' = [watch EXCEPT !.pc = "join"]
    /\ WatcherFrame

\* except KeyboardInterrupt: obs.stop()
WStop ==
    /\ watch.pc = "stop"
    /\ watch' = [watch EXCEPT !.pc = "join", !.obs = "stopping"]
    /\ WatcherFrame

\* The event source's thread ends once it has been told to stop.
ObsExit ==
    /\ watch.obs = "stopping"
    /\ watch' = [watch EXCEPT !.obs = "ended"]
    /\ WatcherFrame

\* obs.join() returns when the thread has ended; watch() returns.
WJoin ==
    /\ watch.pc = "join"
    /\ watch.obs = "ended"
    /\ watch' = [watch EXCEPT !.pc = "returned"]
    /\ WatcherFrame

\* The event source delivers and handles events while it runs.
Observing == watch.obs = "running" /\ ~WEnded

WatcherNext ==
    \/ WSchedule \/ WStart \/ WSleep \/ WInterrupt \/ WStop \/ WJoin
    \/ ObsExit
    \/ Observing /\ (EnvCreate \/ EnvModify \/ EnvDelete)
    \/ Observing /\ (HOnCreated \/ HOnModified \/ HOnDeleted)

\* The main thread keeps running, and so does the event source's thread.
WatcherFair ==
    /\ WF_vars(WSchedule) /\ WF_vars(WStart)
    /\ WF_vars(WStop) /\ WF_vars(WJoin)
    /\ WF_vars(ObsExit)

WatcherSpec == WatcherInit /\ [][WatcherNext]_vars /\ WatcherFair

\* C17 (as stated), on the state watch() ends in: watch() does not end
\* unless an interrupt has arrived, and once an interrupt has arrived
\* during the idle loop, watch() ends with the event source stopped and
\* joined.
C17_InterruptStopsAndJoins ==
    /\ WEnded => watch.seen.any
    /\ (WEnded /\ watch.seen.loop) =>
           (watch.pc = "returned" /\ watch.obs = "ended")

\* C17 (amended): watch() does not end unless an interrupt has arrived;
\* once an interrupt has arrived during the idle loop, watch() eventually
\* ends, and it ends with the event source stopped and joined unless a
\* further interrupt arrived before obs.join() returned.
C17_TerminatesAfterInterrupt ==
    /\ [](WEnded => watch.seen.any)
    /\ []((WEnded /\ watch.seen.loop /\ ~watch.seen.again) =>
              (watch.pc = "returned" /\ watch.obs = "ended"))
    /\ (watch.seen.loop ~> WEnded)

\* One interrupt, taken in the idle loop: the source is stopped and joined
\* and watch() has returned.
C17_Witness ==
    /\ watch.pc = "returned"
    /\ watch.obs = "ended"
    /\ watch.seen.loop
    /\ ~watch.seen.again

----------------------------------------------------------------------------
(* The query specification: a Site is constructed over a source tree,      *)
(* get_pages() fills pagedata, and pages() and tags() are called with      *)
(* every combination of arguments.                                         *)

TQ1 == <<Line("date", <<"d1">>), Line("tags", <<"t1">>), Delim,
         Line("text", <<"x">>)>>
TQ2 == <<Line("date", <<"d2">>), Line("tags", <<"t1", "t2">>), Delim>>
TQ3 == <<Line("date", <<"d1">>), Delim, Line("text", <<"y">>)>>

QueryTexts == {TQ1, TQ2, TQ3, TA}

F_b == Path("content", <<"f">>, "b", ".markdown")
Fa_md == Path("content", <<>>, "fa", ".md")

QueryDisks ==
    { [p \in D \cup {Layout_markdown} |->
         IF p = Layout_markdown THEN TM ELSE f[p]] :
        D \in SUBSET {F_b, Fa_md}, f \in [{F_b, Fa_md} -> QueryTexts] }

QueryPaths == {None, Some("f"), Some("fa")}
QueryTags == {None, Some("t1"), Some("t2")}
QueryLimits == {None} \cup {Some(n) : n \in 0..MaxLimit}
QueryOrders ==
    {None} \cup {Some([attr |-> a, rev |-> r]) :
                   a \in {"date", "slug"}, r \in BOOLEAN}

QueryLast(op, err, args, items) ==
    [op |-> op, err |-> err, args |-> args, items |-> items, pre |-> pagedata]

NoArgs == [path |-> None, tag |-> None, limit |-> None, order |-> None]

\* No call is in progress: the caller has taken the last result.
Idle == [op |-> "idle", err |-> FALSE, args |-> NoArgs, items |-> None,
         pre |-> <<>>]

QueryInit ==
    /\ disk \in QueryDisks
    /\ cache = Cache_warm(NewCache, disk)
    /\ pagedata = <<>>
    /\ output = EmptyDict
    /\ pending = <<>>
    /\ page = None
    /\ last = Idle
    /\ env = NoEnv
    /\ watch = NoWatch

QueryFrame == UNCHANGED <<disk, cache, output, pending, page, watch>>

QGetPages ==
    /\ last = Idle
    /\ env.builds < MaxBuilds
    /\ LET g == Site_get_pages(cache, disk, pagedata)
       IN  /\ pagedata' = g.pagedata
           /\ last' = QueryLast("get_pages", ~g.ok, NoArgs, None)
    /\ env' = [env EXCEPT !.builds = @ + 1]
    /\ QueryFrame

QPages ==
    /\ last = Idle
    /\ \E path \in QueryPaths, tag \in QueryTags, limit \in QueryLimits,
          order \in QueryOrders :
        LET r == Site_pages(pagedata, path, tag, limit, order)
        IN  /\ pagedata' \in IF r.scrambled THEN Perms(pagedata)
                             ELSE {r.pagedata}
            /\ last' = QueryLast("pages", ~r.ok,
                                 [path |-> path, tag |-> tag, limit |-> limit,
                                  order |-> order], r.items)
            /\ UNCHANGED env
            /\ QueryFrame

QTags ==
    /\ last = Idle
    /\ pagedata' = pagedata
    /\ last' = QueryLast("tags", FALSE, NoArgs, Some(Site_tags(pagedata)))
    /\ UNCHANGED env
    /\ QueryFrame

\* The caller takes the result of the call.
QReturn ==
    /\ last # Idle
    /\ last' = Idle
    /\ UNCHANGED <<pagedata, env>>
    /\ QueryFrame

QueryNext == QGetPages \/ QPages \/ QTags \/ QReturn

QuerySpec == QueryInit /\ [][QueryNext]_vars

----------------------------------------------------------------------------
(* Claims about the Handler and the Site *)

\* parse_string raises on this text (configparser rejects its front matter).
ParseRaises(text) == DelimAt(text) # 0 /\ MetaFails(FrontMatter(text))

\* C2 (as stated): on_modified for p with the cache holding A and the disk
\* holding B # A calls render_to_disk() exactly once, on a Page parsed from
\* B, and cache.get(p) = B afterwards; with the disk holding A, no Page is
\* parsed or rendered and the cache is unchanged.
C2_ModifyRendersOnce ==
    (last.op = "on_modified" /\ last.old # None /\ last.new # None) =>
        IF last.new # last.old
        THEN /\ last.renders = 1
             /\ last.parsed = last.new
             /\ Cache_get(cache, last.path[1]) = last.new
        ELSE /\ last.renders = 0
             /\ last.parsed = None
             /\ cache = last.pre.cache

\* C2 (amended): with B # A, parse_string is given B, render_to_disk() is
\* called exactly once on the Page parsed from B unless parsing B raises
\* (then it is not called), and cache.get(p) = B afterwards; with the disk
\* holding A, no Page is parsed or rendered, files is unchanged, and
\* templates is unchanged except that the entry under p's content-relative
\* name is set to A when p does not end in .md.
C2_ModifyRendersOnceOrRaises ==
    (last.op = "on_modified" /\ last.old # None /\ last.new # None) =>
        LET p == last.path[1]
            k == RelTo(p, "content")
        IN  IF last.new # last.old
            THEN /\ last.parsed = last.new
                 /\ last.renders = IF ParseRaises(last.new[1]) THEN 0 ELSE 1
                 /\ Cache_get(cache, p) = last.new
            ELSE /\ last.renders = 0
                 /\ last.parsed = None
                 /\ cache.files = last.pre.cache.files
                 /\ cache.order = last.pre.cache.order
                 /\ cache.templates =
                      IF p.ext # ".md"
                      THEN DictSet(last.pre.cache.templates, k, last.old[1])
                      ELSE last.pre.cache.templates

C2_Witness ==
    /\ last.op = "on_modified"
    /\ last.old # None /\ last.new # None /\ last.new # last.old
    /\ last.renders = 1
    /\ last.parsed = last.new

C2_WitnessUnchanged ==
    /\ last.op = "on_modified"
    /\ last.old # None /\ last.new = last.old
    /\ last.renders = 0
    /\ cache.templates # last.pre.cache.templates

\* C3: once every delivered event is handled, the cache entry under the
\* root-relative path of every notified file is the file's content on disk
\* when the file exists and is absent when it was deleted.
C3_CacheInStep ==
    pending = <<>> =>
        \A p \in env.notified : Cache_get(cache, p) = DictGet(disk, p)

\* C4: after a build, a modify event for a page-like content file whose
\* content changed leaves the output file at the page's target holding the
\* rendering of the new content.
C4_OutputInSync ==
    (/\ last.op = "on_modified"
     /\ last.new # None /\ last.new # last.old
     /\ last.path[1].ext \in PageLike
     /\ ~ParseRaises(last.new[1])) =>
        LET pg  == Page_parse_string(last.path[1], last.new[1]).page[1]
            tgt == Page_get_target(pg).target[1]
            r   == Page_render(pg, cache, pagedata)
        IN  (tgt \in DOMAIN last.pre.output /\ r.ok) =>
                output[tgt] = r.out[1]

\* The output files that correspond to a content file: output/<filepath>
\* and everything below output/<folder>/<name>/.
CorrespondsTo(p, k) ==
    \/ k = RelTo(p, "content")
    \/ IsPrefixSeq(p.dir \o <<p.stem>>, k.dir)

\* C5: on_deleted for a path under content/ removes the corresponding
\* subtree under output/; for a path outside content/ and layouts/ it
\* changes neither the disk nor the cache.
C5_DeleteRemovesOutput ==
    last.op = "on_deleted" =>
        LET p == last.path[1]
        IN  /\ p.top = "content" =>
                  \A k \in DOMAIN output : ~CorrespondsTo(p, k)
            /\ p.top \notin {"content", "layouts"} =>
                  /\ disk = last.pre.disk
                  /\ cache = last.pre.cache

\* C6: a second build() right after a build(), nothing having changed in
\* between, leaves the output tree as the first left it.
C6_BuildIdempotent ==
    (/\ last.op = "build" /\ ~last.err
     /\ last.prev.op = "build" /\ ~last.prev.err) =>
        output = last.pre.output

\* C7: after get_pages() or build(), pagedata holds exactly one Page per
\* regular file under content/ that the cache knows: no duplicates, nothing
\* left over from earlier calls.
C7_PagedataReflectsContent ==
    (last.op \in {"get_pages", "build"} /\ ~last.err) =>
        LET known == {p \in DOMAIN cache.files :
                        StartsWith(p, "content") /\ p \in DOMAIN disk}
        IN  /\ Len(pagedata) = Cardinality(known)
            /\ {pagedata[i].filepath : i \in DOMAIN pagedata}
                 = {RelTo(p, "content") : p \in known}

\* C15: whenever on_modified parses and renders a Page, the text it parses
\* is the one read from disk in that handler call; when the file is gone
\* from disk (the read returns nothing while the cache holds an old value)
\* no Page is parsed from the cached text.
C15_RendersFreshContent ==
    (last.op = "on_modified" /\ last.parsed # None) =>
        (last.new # None /\ last.parsed = last.new)

----------------------------------------------------------------------------
(* Claims about Site.pages and Site.tags *)

\* The Page passes the path and tag filters of the call.
Matches(pg, args) ==
    /\ args.path # None => FilepathStartsWith(pg.filepath, args.path[1])
    /\ args.tag # None => (pg.tags # None /\ args.tag[1] \in Range(pg.tags[1]))

Count(s, x) == Cardinality({i \in DOMAIN s : s[i] = x})
Min(a, b) == IF a <= b THEN a ELSE b

\* C11: the result of pages(path, tag, order, limit) has at most limit items
\* when limit > 0; every item has a filepath starting with path and has tag
\* in its tags; the items are ordered by the named attribute, descending for
\* a leading '-'; and the result is the first limit items of the sorted
\* filtered pagedata: it has min(limit, matching) items, all taken from the
\* matching Pages, and no matching Page left out sorts strictly before the
\* last item returned (the matching Pages all having the attribute set when
\* two or more are sorted).
C11_PagesContract ==
    (last.op = "pages" /\ ~last.err) =>
        LET a == last.args
            r == last.items[1]
            f == SelectSeq(last.pre, LAMBDA p : Matches(p, a))
            limited == a.limit # None /\ a.limit[1] > 0
            key(p) == StrRank(Attr(p, a.order[1].attr)[1])
            lt(x, y) == IF a.order[1].rev THEN key(x) > key(y)
                        ELSE key(x) < key(y)
        IN  /\ limited => Len(r) <= a.limit[1]
            /\ \A i \in DOMAIN r : Matches(r[i], a)
            /\ Len(r) = IF limited THEN Min(a.limit[1], Len(f)) ELSE Len(f)
            /\ \A x \in Range(r) : Count(r, x) <= Count(f, x)
            /\ a.order = None => r = SubSeq(f, 1, Len(r))
            /\ (a.order # None /\ Len(f) >= 2) =>
                   /\ \A x \in Range(f) : Attr(x, a.order[1].attr) # None
                   /\ \A i \in 1..(Len(r) - 1) : ~lt(r[i + 1], r[i])
                   /\ \A x \in Range(f) :
                          lt(x, r[Len(r)]) => Count(r, x) = Count(f, x)

\* pages(path="f", tag="t1", order="-date", limit=1) over Pages of both
\* dates returns the one Page of the later date.
C11_Witness ==
    /\ last.op = "pages" /\ ~last.err
    /\ last.args = [path |-> Some("f"), tag |-> Some("t1"),
                    limit |-> Some(1),
                    order |-> Some([attr |-> "date", rev |-> TRUE])]
    /\ \E i, j \in DOMAIN last.pre :
           /\ i < j
           /\ Matches(last.pre[i], last.args) /\ Matches(last.pre[j], last.args)
           /\ last.pre[i].date = Some("d1") /\ last.pre[j].date = Some("d2")
    /\ Len(last.items[1]) = 1
    /\ last.items[1][1].date = Some("d2")

\* The text a Page of pagedata was parsed from (the tree does not change
\* in the query specification).
SourceText(pg) ==
    disk[Path("content", pg.filepath.dir, pg.filepath.stem, pg.filepath.ext)]

HasTagsLine(text) ==
    DelimAt(text) # 0 /\ "tags" \in MetaKeys(FrontMatter(text))

\* C16: every Page that parse_string returned (here: every Page of
\* pagedata) has a sequence of strings as tags, empty when the text gives
\* no tags, with or without the delimiter; so pages(tag=t) and tags() do
\* not fail over pagedata produced by get_pages().
C16_TagsAlwaysSequence ==
    /\ \A i \in DOMAIN pagedata :
           /\ pagedata[i].tags # None
           /\ ~HasTagsLine(SourceText(pagedata[i])) =>
                  pagedata[i].tags = Some(<<>>)
    /\ (last.op = "pages" /\ last.args.order = None) => ~last.err
    /\ last.op = "tags" => ~last.err

\* As C16, for the calls only: pages(tag=t), no order given, and tags()
\* do not fail.
C16_QueriesDefined ==
    /\ (last.op = "pages" /\ last.args.order = None) => ~last.err
    /\ last.op = "tags" => ~last.err

\* C18: pages() is a pure query: for every combination of path, tag,
\* order and limit, a call leaves pagedata as it was, in membership and in
\* order.
C18_PagesIsPure ==
    last.op = "pages" => pagedata = last.pre

\* As C18, for the calls that return.
C18_PagesIsPureOnReturn ==
    (last.op = "pages" /\ ~last.err) => pagedata = last.pre

====
